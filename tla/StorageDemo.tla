----------------------------- MODULE StorageDemo -----------------------------
(***************************************************************************)
(* The client application demo/secure_storage/host/main.c run against      *)
(* SecureStorage: every client is a process that runs main again and       *)
(* again, all of them on the one object "object#1", or is a stranger that  *)
(* asks what it likes of any object.  An answer other than success is      *)
(* errx, on which the driver closes the session; a power loss ends every   *)
(* process.                                                                *)
(***************************************************************************)
EXTENDS SecureStorage, Sequences

CONSTANTS
  Object,     \* "object#1"
  Strangers,  \* clients that may be no main but ask what they like
  DataOf      \* the content each client writes; the demo's is the same for all

ASSUME DemoAssumption ==
  /\ Object \in Ids
  /\ Strangers \subseteq Clients
  /\ DataOf \in [Clients -> Values]

VARIABLES
  at,    \* position of each client in Script, or how its run ended
  found  \* what each client read back

demoVars == <<store, holder, pc, req, heap, orphans, known, reply, at, found>>

Script == <<"open", "write", "read", "compare", "delete", "terminate">>
Failed == 0
Ended == Len(Script) + 1
Stranger == Len(Script) + 2

At(c, step) == at[c] \in DOMAIN Script /\ Script[at[c]] = step

(* main goes on after a success and leaves through errx otherwise.         *)
Proceeds(c) ==
  at' = [at EXCEPT ![c] = IF reply'.res = "OK" THEN @ + 1 ELSE Failed]

DemoInit ==
  /\ Init
  /\ at = [c \in Clients |-> 1]
  /\ found = [c \in Clients |-> Null]
-----------------------------------------------------------------------------
(* Slips: steps of main with one line wrong; DemoNext takes none of them.  *)

(* ContentAsWritten: the session is given up before the object is read.    *)
ReopensToRead(c) ==
  /\ At(c, "read")
  /\ \/ /\ holder = c
        /\ TA_InvokeCommandEntryPoint(c, [cmd |-> "read", id |-> Object,
                data |-> Null, size |-> SizeOf[DataOf[c]]])
     \/ TA_CloseSessionEntryPoint(c)
     \/ holder = Null /\ TA_OpenSessionEntryPoint(c)
  /\ UNCHANGED <<at, found>>

(* LeavesNothing: the delete is asked for something else.                  *)
ReadsAgain(c) ==
  /\ At(c, "delete")
  /\ TA_InvokeCommandEntryPoint(c, [cmd |-> "read", id |-> Object,
       data |-> Null, size |-> SizeOf[DataOf[c]]])
  /\ UNCHANGED <<at, found>>

(* FailsForCause: the buffer to read into is smaller than what is written. *)
ReadsShort(c) ==
  /\ At(c, "read")
  /\ TA_InvokeCommandEntryPoint(c, [cmd |-> "read", id |-> Object,
       data |-> Null, size |-> SizeOf[DataOf[c]] - 1])
  /\ UNCHANGED <<at, found>>
-----------------------------------------------------------------------------
prepare_tee_session(c) ==
  /\ At(c, "open")
  /\ TA_OpenSessionEntryPoint(c)
  /\ Proceeds(c)
  /\ UNCHANGED found

write_secure_object(c) ==
  /\ At(c, "write")
  /\ TA_InvokeCommandEntryPoint(c, [cmd |-> "write", id |-> Object,
       data |-> DataOf[c], size |-> SizeOf[DataOf[c]]])
  /\ UNCHANGED <<at, found>>

read_secure_object(c) ==
  /\ At(c, "read")
  /\ TA_InvokeCommandEntryPoint(c, [cmd |-> "read", id |-> Object,
       data |-> Null, size |-> SizeOf[DataOf[c]]])
  /\ UNCHANGED <<at, found>>

delete_secure_object(c) ==
  /\ At(c, "delete")
  /\ TA_InvokeCommandEntryPoint(c, [cmd |-> "delete", id |-> Object,
       data |-> Null, size |-> 0])
  /\ UNCHANGED <<at, found>>

(* The TA works on a command; its last step answers the client.            *)
Serve(c) ==
  /\ holder = c
  /\ Handler
  /\ IF pc' = "idle" /\ at[c] # Stranger THEN Proceeds(c) ELSE UNCHANGED at
  /\ found' = IF pc' = "idle" /\ At(c, "read")
              THEN [found EXCEPT ![c] = reply'.data] ELSE found

(* The memcmp of main.                                                     *)
Compare(c) ==
  /\ At(c, "compare")
  /\ at' = [at EXCEPT ![c] = IF found[c] = DataOf[c] THEN @ + 1 ELSE Failed]
  /\ UNCHANGED <<vars, found>>

terminate_tee_session(c) ==
  /\ At(c, "terminate")
  /\ TA_CloseSessionEntryPoint(c)
  /\ at' = [at EXCEPT ![c] = Ended]
  /\ UNCHANGED found

(* errx: the session, if there is one, is closed by the driver.            *)
CleanUp(c) ==
  /\ at[c] = Failed
  /\ TA_CloseSessionEntryPoint(c)
  /\ UNCHANGED <<at, found>>

RunAgain(c) ==
  /\ at[c] \in {Failed, Ended, Stranger}
  /\ holder # c
  /\ \/ at' = [at EXCEPT ![c] = 1]
     \/ c \in Strangers /\ at' = [at EXCEPT ![c] = Stranger]
  /\ found' = [found EXCEPT ![c] = Null]
  /\ UNCHANGED vars

(* Any client of the TA, main or not: every command on every object.       *)
AnyCommand(c) ==
  /\ at[c] = Stranger
  /\ \/ TA_OpenSessionEntryPoint(c)
     \/ TA_CloseSessionEntryPoint(c)
     \/ \E r \in Asked : TA_InvokeCommandEntryPoint(c, r)
  /\ UNCHANGED <<at, found>>

DemoPowerLoss ==
  /\ PowerLoss
  /\ at' = [c \in Clients |-> 1]
  /\ found' = [c \in Clients |-> Null]

Client(c) ==
  \/ prepare_tee_session(c)
  \/ write_secure_object(c)
  \/ read_secure_object(c)
  \/ delete_secure_object(c)
  \/ Serve(c)
  \/ Compare(c)
  \/ terminate_tee_session(c)
  \/ CleanUp(c)
  \/ RunAgain(c)
  \/ AnyCommand(c)

DemoNext == DemoPowerLoss \/ \E c \in Clients : Client(c)

DemoSpec == DemoInit /\ [][DemoNext]_demoVars
-----------------------------------------------------------------------------
(* "Unexpected content found in secure storage" is never printed: though   *)
(* all runs use one object, and earlier ones may have been cut short with  *)
(* the object there or half made, the session keeps them apart.            *)
ContentAsWritten ==
  \A c \in Clients : At(c, "compare") => found[c] = DataOf[c]

(* A run that gets through leaves the storage as if it had not been.       *)
LeavesNothing ==
  \A c \in Clients : At(c, "terminate") => store[Object] = Null

(* A run fails only because another holds the session or the storage does: *)
(* never for an object that is missing, too large, or left by an earlier   *)
(* run, nor for memory.                                                    *)
FailsForCause ==
  [][\A c \in Clients :
       at'[c] = Failed /\ at[c] # Failed =>
         reply'.res = IF At(c, "open") THEN "BUSY" ELSE "STORAGE"]_demoVars
=============================================================================
