# TLA+ models and proofs of the Tsec SDK

The repository holds a development kit for a RISC-V TEE (OP-TEE with vendor
extensions): demonstrations that each consist of a client application in the
normal world (`demo/*/host`) and a trusted application, TA
(`demo/*/ta`), and the tools that sign images and build the security metadata a
board boots with (`tools/sectool`). The TEE core, the TEE client library and
the peripheral drivers are prebuilt binaries and appear here only as the code
under `src/` uses them.

`PROJECT.json` lists the components, the runs, the findings, the hazards and
the theorems, and maps every definition to the lines it translates. Paths below
are relative to `src/Tsec_dev_kit/Tsec_sdk/` or `src/tools/sectool/`.

    tlc -config AesDemo.cfg MCAesDemo      one run, see the table of runs
    tlapm AesProofs.tla                    one proof module

## 1. Inventory

### How the parts interact

A client opens a context and a session, and invokes commands with up to four
parameters (values, or buffers in shared memory). `TEEC_InvokeCommand` blocks,
so a client has one command under way at a time. Unless the header of a TA says
otherwise, every session has a TA instance of its own, with its own heap; the
instances run concurrently and share the operations and transient objects of
the TEE core. A TA that calls the core wrongly (a missing key, a handle that is
none) is panicked: the instance is gone and the client is told
`TEE_ERROR_TARGET_DEAD`. The tools are scripts that call one another and
communicate through files of fixed names and through exit statuses.

### Components

| component | state | operations | hard behaviour | what makes it correct |
|---|---|---|---|---|
| TEE core pool (external) | slots: kind, owner, contents | allocate, free, populate, set key, reset, init | shared by all instances; freed slots reused at once | a handle belongs to one session; nothing leaks |
| AES TA `demo/cipher/ta` | `struct aes_cipher`: key size, mode, operation, key object; heap | open, close, PREPARE, SET_KEY, SET_IV, CIPHER | five calls that can fail in one command; refused commands that have already stored something; panics; dummy key never freed | handles never stale, no leak, reset never panics, the key and vector last accepted are the ones used |
| AES client `demo/cipher/host` | position in `main`, two buffers | encode, decode, compare | two processes at once, errx at every call | decoded text is the clear text |
| secure storage TA | objects, heap of a single instance | WRITE, READ, DELETE | power loss, failures halfway, buffers not freed on an early return | an answer given is true of the storage |
| secure storage client | position in `main` | write, read, compare, delete | the object of a run that was cut short | "Unexpected content" never printed |
| RSA, DSA, hash TAs and clients | like AES, without the heap; DSA also a global key handle | PREPARE, SET_KEY, crypto commands | half a session after a failure, no reset before a second key, an unassigned result | as for AES |
| ECDSA, ECDH, Curve25519 TAs and clients | none in the TA (Curve25519: the object of its GEN_KEY): handles travel to the client as 32-bit values | allocate, free, populate, set key, sign, verify, derive | stale, foreign and misordered handles; nothing released on close | the client's order of calls is one the core accepts; secrets agree; the pool is not eaten up |
| SPI TA and client | bus handle; CRC state; the frame buffer | init, send, receive, transmit; hunt for a header | lost bytes, stale answers, errors dropped, an endless hunt | an answer accepted is the answer to the last command |
| security element, I2C, GPIO TAs and clients | a driver handle per session | one driver call per command | initialised bus left behind by a closed session; results dropped | what a session set up is taken down |
| eFuse client, TRNG, hello world, shared memory, float demos | none between calls | one or two calls | none | - |
| `sbmeta.py`, `sbmeta.yaml` | list, info on every image, output file | check, sign, digest, record, pad | stale signed files; a program that fails with status 0; mistakes in the list found late | digest and scheme are those of the file to be installed |
| `imagesign.sh` | images and signed files by name | sign tee, tf, u-boot, ree, sbmeta | result of the sign tool not looked at; version 0; ree signed in place on a mount | a signed file is of the image asked for |
| `sbmetaupd.sh`, `sbmetagen.sh`, `bin2ext4.sh` | working files shared by all boards, one `sbmeta.ext4` per board | update one board or all | every step can fail without a word; interruption; files left by the board before | a board's metadata vouch for its own images |
| vendored kit, burn scripts, binaries, manuals | - | - | - | not modelled |

`PROJECT.json` lists each demonstration by itself with its reason.

## 2. Modules

    TeeCore         pool of the core (external): slots, Install, Release, Reclaim
    AesState        struct aes_cipher, parameters of the commands, panic
    AesTA           cipher_ta.c, one action per command or per allocating call
    AesProps        properties of AesTA and the refinement mapping
    AesService      what the AES TA promises, without handles, pool or heap
    AesDemo         cipher/host/main.c as a process over AesTA
    AesProofs       theorems about AesTA, AesService and AesDemo
    SecureStorage   secure_storage_ta.c, with failures and power loss
    StorageDemo     secure_storage/host/main.c as processes over SecureStorage
    StorageProofs   theorems about SecureStorage and StorageDemo
    KeyState        rsa_cipher, dsa_cipher, hash_cipher, parameters, panic
    KeyTA           acipher_ta.c, dsa_ta.c, hash_ta.c
    KeyProps        properties of KeyTA and the refinement mapping
    KeyService      what these three TAs promise, without handles or pool
    KeyDemo         the mains of acipher, dsa, hash as processes over KeyTA
    HandleTA        ecdsa.c, ecdh.c, curve25519.c
    HandleDemo      their mains, or a stranger passing any handle
    DeviceTA        the TAs of SPI, I2C, GPIO and the security element, and the
                    element at the other end of the bus (external)
    Bits            numbers of 16 bits and the operator ^ of C
    SeCrc           the CRC-16 of spi/host/main.c, behind se_crc.h
    DeviceDemo      the mains of these four, with the exchange byte by byte
    SbMeta          sbmeta.py and what it needs of imagesign.sh
    ImageSign       imagesign.sh
    SbMetaUpdate    sbmetaupd.sh, sbmetagen.sh, bin2ext4.sh
    KeyProofs       theorems about KeyTA, KeyService and KeyDemo
    HandleProofs    theorems about HandleDemo
    DeviceProofs    theorems about DeviceDemo
    SbMetaProofs, ImageSignProofs, UpdateProofs
                    theorems about the three modules before; for all, see 4
    MCAes, MCAesDemo, MCKey, MCHandle, MCDevice, MCStorageDemo,
    MCSbMeta, MCImageSign, MCSbMetaUpdate
                    values for TLC

`TeeCore` is the bottom of `AesState`, `KeyState` and `HandleTA`; each `...Demo`
module composes a TA module with the processes of its clients, one of which may
be a *stranger*, a client of our own making that sends the TA any command at any
time. The clients of different TAs do not call one another.

Each module with actions has a section of *slips*: actions as they would be
with one line of the code wrong, named for the property each would break. No
next-state relation contains one. Putting a slip in the place of the action it
distorts makes TLC report the property (`mutants` in `PROJECT.json`), which is
how we know that the property says something about the code.

### AES

`sess[s]` is `struct aes_cipher` of session `s`, with `pc` for the place in
`alloc_resources` its handler has reached and `phase` for the life of the
instance. `slots` is the core's pool, `heap[s]` the blocks in use on the heap
of the instance, `reply` the last answer.

`alloc_resources` is split at its allocating calls (`PrepareStart`,
`AllocateOperation`, `AllocateTransientObject`, `MallocDummyKey`,
`LoadDummyKey`, `PrepareError` for the `err` label), because another session
can take a slot between a free and the next allocation. The other commands
touch only what the session holds and are one step each. The two freed fields,
`op_handle` between its free and its assignment and `key_handle` likewise, keep
their old value in the model as they do in the code. The three conversions at
the top of `alloc_resources` write the session in turn, so `PrepareRefused`
still stores the key size when the mode is bad. `TEE_SetOperationKey` may fail,
and `TEE_CipherInit` and `TEE_CipherUpdate` panic where the core does. Commands
refused for the types of their parameters, and unknown ones, change nothing but
the answer.

Data: key material is an identity and a length, a stream is what the cipher
command ran with (mode, key, vector). Chaining between blocks, and the lengths
of the data beyond "the output buffer is large enough", are left out.

`AesService` says what is left when handles, pool and heap are forgotten: a
session is closed, unprepared, ready (mode, size, key, vector) or dead, and a
ciphered buffer comes with exactly the mode, key and vector last accepted.
`AesProps!Service` reads that off the operation a session holds.

`AesDemo` has `main` as a script. `Strangers` are sessions whose client sends
any command with any parameters instead.

### RSA, DSA, hash

One module, because the three TAs share the scheme; where they differ the
actions have the name of the function and a guard on `ta[s]`. As for AES,
`PREPARE` is one step per allocating call. DSA generates a key pair in SET_KEY,
and on its path with a single buffer compares a result nobody has assigned:
there the model continues either way. Its global key handle follows the session
structure, of which there is one per instance. Key sizes count in units of 1024
bits. The structures on the heap are allocated once and never grow, so there is
no heap. The RSA TA hands any pair of algorithm and mode to the core; where the
core allocates an operation for which the TA has no command, the model has the
mode "sign". A digest is the sequence of chunks absorbed since the last one
(`fed`), at most `MaxChunks`; what RSA and DSA yield is told by mode and key.

`KeyService` has per session: closed, unprepared, ready (mode, size, key, data
fed) or dead, and says which commands may lose a session.

### ECDSA, ECDH, Curve25519

`HandleTA` keeps no table: a command takes any handle (`Passed`), and what the
core does with one that is freed, foreign or of the wrong kind is a panic of the
instance. `slots` is the pool, `inst` the instance of each session with the
object of Curve25519's GEN_KEY, which is freed in one step and allocated in the
next. `HandleDemo` has the three mains as scripts over up to four sessions,
opened one after the other and never closed; `held` is the handles in the
client's variables (they stay there after the free), `got` what it read back.
Key material is who generated its two halves, and whether the core dropped a
leading zero of it (`short`), which makes the later import fail.

### SPI, security element, I2C, GPIO

`DeviceTA` has per process the state of the driver handle (`hd`: no session,
session without handle, open, ready, dead), and `adrift` for what was
initialised and not taken down. A driver call fails in the wrong state and may
fail in the right one. `chip` is the security element on the bus: how much of a
request it has taken, what it has still to shift out, whoever reads.
`DeviceDemo` has the mains as scripts; the exchange of `se_hsck2_scan` is one
step per byte: frame and checksum out, the hunt for the five header bytes,
length, data, checksum. A process may be killed anywhere in it and leaves the
rest of the answer on the line. `hurt` counts failed calls, `meddled` is whether
another process used the line meanwhile. `main` of the SPI client has the call
of `se_hsck2_scan` commented out; it is modelled since it is the only user of
the link. A session whose open failed in the driver stays without a handle, and
an answer of one byte ends the process, which prints it over a wrapped length.

### Secure storage

`store` is the content of every object, `holder` the client whose session the
single instance serves (others get `BUSY`), `pc` and `req` the command under
way, `heap` and `orphans` the blocks of the heap and those that nothing points
to any more. `known` is a history variable: the contents the answers given so
far leave possible for each object. A write is creation, which empties the
object, then the data; a failure in between deletes the object again; a power
loss between the two leaves an empty object, and the client is told nothing.
`TEE_Malloc` of the second buffer failing returns without freeing the first.

### Metadata builder

`files` and `signed` are the images and the signed images by the name
`imagesign.sh` gives them, `list` the images of `sbmeta.yaml`, `info` what the
check found out, `pc` and `k` the pass and the image. `out` is the output file:
the records in it that are whole, and what follows them, nothing, a part of
another record (`torn`, left by a field that could not be packed) or the
padding. A record has a fixed size of which `Slots` fill the file, so a file of
full size is either padded or full: a list that fills it to the last byte is
refused by `padding_image` with every record written, and one still longer too.
The content of a file is an identity and its signature header, so a digest is
the content itself. Packing of fields is left out except for whether it
succeeds. `spoiled` is a history variable: images the sign tool failed on.

### Image signing

`signed` has the signed files by the arguments their names are made of; the two
parts of a u-boot image (`pubkey`, `part`) have names that algorithm and
attribute, for the first also the version, do not enter, so all runs share
them. `boot` is the files inside `boot.ext4`, reached only while `mounted`. A
file is what was built and the signatures on it, outermost last; what is left of
one cut short is `Broken`. Each program called is a step that may fail if it is
in `Faults`, `cat` and `cp` also halfway; nothing looks at the result.
`Interrupt` ends the script between two steps, mounts left as they are.
A second mount on one that is left is not told from it. `failed`, `placed` and
`lost` are history variables: something went wrong in this run; what the boot
image was built from; something went wrong while it was mounted.

### Metadata update

Every file on the way (`local` with `trust_firmware.bin` and `tee.bin`, `bin`,
`signed`, `packed`) is a variable shared by all boards, as the paths in the
scripts are; `teeExt` and `sbmetaExt` are per board. A whole file is known by
the upload it was copied from, a set of parts: a `tee.ext4` need not hold both.
Each program is an action that may fail if it is in `Faults`, and one that
writes a file may leave it cut short (`Broken`). `Interrupt` ends the script
between two programs or in the middle of one. What is mounted then stays
mounted: `temp` is the stack of uploads on the mount point of `sbmetaupd.sh`,
`stuck` the boards whose image is left on that of `bin2ext4.sh`, until the user
takes it down (`UserUnmounts`); the `rm -rf` of a later run reaches through the
mount and removes the files in the image (`wiped`), as far as it is permitted
to. `told` is the boards a message was printed for. `failed` and `unsure` are
history variables: the boards a program failed for in this run, and those whose
`sbmeta.ext4` was last written when one had failed for them or was interrupted.

## 3. Runs

| run | configuration | shows |
|---|---|---|
| `aes_demo` | a main and a stranger, 2 slots, 3 blocks per heap, any call fails | handles, pool and sizes consistent; AesTA implements AesService; decoded text is clear; only resources fail the main; every PREPARE is answered; nothing left behind |
| `aes_key_length` | 1 session | finding, see 6 |
| `key_demo` | 2 sessions of any of the 3 TAs, each a main or a stranger, 2 slots, any call fails | handles and pool agree; KeyTA implements KeyService; a main that gets to its end has the right result and none fails for its order of commands |
| `handle_demo` | 2 processes of any of the 3 TAs, one of which may be a stranger, 4 slots, any call fails | secrets agree; a reported signature was verified; only resources or a short attribute fail a main; the pool is not eaten up |
| `device_demo` | 2 processes of any of the mains, one of which may be a stranger, a failing call each, kills | an answer accepted is one the element gave; the scan fails only for a cause; the hunt can end; what a main leaves initialised |
| `storage_demo` | 2 clients, one of which may be a stranger, 2 objects, 3 contents, 4 blocks, power loss | answers true of the storage, heap accounted for; the content read is the one written; a run fails only for a cause outside it |
| `sbmeta_build` | lists of up to 4 images, 3 records to the file, 2 types, 2 paths, the sign tool fails | what a file of full size tells of its build; digests and schemes of what is installed; signed where it can be |
| `sbmeta_unsigned` | a list with one image of either type, the sign tool fails | finding |
| `image_sign` | 3 runs with 4 arguments, one of them a boot image of 2 files, every program fails, interruption | a clean run leaves what was asked for, though runs share files; the boot image keeps its files |
| `update_boards` | 3 boards, 2 uploads with one part or both, every program fails and cuts files short, interruption | an `sbmeta.ext4` written without a failure vouches for one upload of its own board; up to date or told |
| `update_silent` | 3 boards, 2 complete uploads, the sign tool or `bin2ext4.sh` fails | finding |
| `update_foreign` | the same with one part or both, the sign tool fails | finding |

Why these bounds are enough to see what the properties are about:

- *AES.* A fully prepared session takes two slots. With two, a session can be
  starved entirely, the two compete at each of the two allocations, and one can
  take the slot the other has just freed. Three heap blocks are the session
  structure and two dummy keys, what `main` needs, so the third PREPARE of a
  session runs out of heap. The two clients have different keys and vectors.
  The theorems of section 4 cover any number of sessions, slots and blocks.
- *RSA, DSA, hash.* The same two slots. One key identity of the larger size and
  the smaller size for operations show a key that does not fit; two chunks and
  `MaxChunks` 1 let the digest be over both and over one. The proofs cover the rest.
- *Handles.* `main` of ECDSA holds up to four slots, so with four it can just
  get through alone and fails at any allocation beside another. The stranger
  may hold one slot (`MaxGrasp`) and pass any of the four handles.
- *Devices.* The buffer holds 2 bytes; the element answers with one byte, with a
  full buffer and with three bytes that end like a header. `MaxLeft` 12 is the
  longest answer frame with room for what an earlier one has left. One failed
  call per process (`MaxHurt`): the properties excuse what follows one anyway.
- *Storage.* A small content, one that fills an empty heap, and one that never
  fits: its refusal leaves a block behind, and enough of these make the large
  and then the small content fail as well. Two objects show that one is not
  disturbed by commands on the other.
- *Builder.* `tf` stands for the types `imagesign.sh` knows and `dtb` for those
  it does not; one path is the one the script signs and the other is not. The
  lists contain every mistake the script tests for, alone and after or before a
  good image, and two different signatures of one image. No list names an image
  twice in the same way: after a sign tool that fails once and then works, the
  first of the two records would have the digest of the unsigned file. The file
  holds 3 records, so lists of 1 and 2 leave room for padding, one of 3 fills it
  to the last byte, and of a fourth image three kinds come: one that is recorded,
  one refused before a byte of it is written and one refused halfway. The
  finding needs one image.
- *Signing.* Versions 255.0, 0.256 and 1 are the edges: the largest, one beyond,
  one without its second half. Two u-boot requests differ in the algorithm only;
  two runs for the boot image use the same names, so that a signed file of the
  first can be taken for one of the second; two boot files let a run end between
  them. Three runs: one whose leftovers matter, one cut short, one clean. Calls
  that are refused for their arguments are not counted.
- *Update.* LA and LB have an output directory, SOM has not; a run for one
  board follows a run for another or for both others; a second upload makes the
  first one stale. Three rounds (`MaxRounds`): one board leaves files behind,
  another is interrupted or fails, a third round is clean. Two mounts
  (`MaxMounts`) are one left behind and the next on top of it; the limit shows as
  a mount that fails.

Deadlock is checked except where the processes end (`aes_demo`, `key_demo`,
`handle_demo`, `device_demo`) and in the runs named `update_`, which
stop when uploads and rounds are used up. Symmetry is used for slots, sessions
and image contents where they are interchangeable, and in no run with liveness.

Fairness is assumed in one checked specification. `DemoSpec` of `AesDemo` has
weak fairness of every client process and of the TA instance that serves it: a
process runs `main` to its end, and a thread that has entered the TA is
scheduled until the command is answered. None of these steps waits for anything
(an allocation that finds no slot fails, it does not block). Nothing is assumed
of a stranger: it may fall silent at any time. All other specifications are
about safety and assume none; the hunt for a header in `DeviceDemo`, which has
no bound in the code, is instead shown never to be in a state it cannot get out
of (`HuntEnds`).

## 4. Theorems

All are proved for every value of the constants that the named assumptions
allow: any number of sessions, slots, clients, boards, uploads and any set of
calls that fail.

- **AesProofs** (from `TeeCoreAssumption`, `AesAssumption`): `TypeCorrect`,
  `HandlesNeverStale`, `PoolNeverLeaks`, `HandlesPaired`, `ResetNeverPanics`,
  `NoKeyOutgrows`, `StagesHold`. The properties are not inductive one by one:
  that a handle is live needs that nobody else frees the slot, which needs that
  slots have owners and fields of two sessions never name one slot. The
  invariant `IInv` is the type, `SessInv(s)` for every session, and `Claimed(h)`
  for every slot: a live slot is claimed by the session that owns it. While
  `alloc_resources` stands between a free and the assignment, the freed field
  is excluded from the claims (`OpClaim`, `KeyClaim`). The lemma `Frame` says
  that a step that is `Local(s)` keeps the invariant of all others, which leaves
  one lemma per action, about its own session. `ContentsKeep` and `EmptiesKeep`
  serve the actions that only rewrite contents or only give slots back.
  `AesTARefinesAesService`, from the same assumptions: what `Service(t)` reads is
  not touched by a step of another session, so each action of `s` is matched
  with one step of the service or none. `IInv` is not enough: a session is found
  configured as asked only at the last step of PREPARE, so `Asked` is carried
  along, what the arguments under way and the objects already allocated have to
  do with each other (`JInv`).
  `ClientsRunTheTA`, `DecodingInvertsEncoding`, `ScriptIsServed` (with
  `DemoAssumption`) are about `AesDemo`. Its invariant `DemoInv` tells a main's
  position in the script from the configuration of the service its session
  stands in (`Progress`): what it has asked for while a PREPARE is under way,
  then the dummy key, its own key, its vector. Every step of the TA for `s` takes
  the main of `s` from one row to the next or to `Failed` with an answer that
  only a resource explains, and leaves the rows of all other mains alone.
- **KeyProofs** (from `TeeCoreAssumption`, `KeyAssumption`): `TypeCorrect`,
  `HandlesAreExact`, `OperationHasObject`. Here the slots of a session are
  claimed to be exactly its handles (`Exact`), which is both no stale handle and
  no leak; `Stage` says what PREPARE holds where, and `KeyFits` that the key of
  an operation is not above its size and is a pair where the mode needs one.
  `Local` and `Frame` work as for AES.
  `KeyTARefinesKeyService` goes along the same lines as for AES; without a heap
  and without a key size kept in the session `IInv` is enough.
  `ClientsRunTheTA`, `MainsGetTheirResults` and `MainsKeepTheOrder` (with
  `DemoAssumption`) are about the mains, as in AesProofs: `Progress` has the mode,
  key and chunks each position of the three scripts goes with, and what the
  client has read so far.
- **HandleProofs** (from `TeeCoreAssumption`, `HandleAssumption`,
  `DemoAssumption`): `SessionsAreIsolated` for the TAs under any clients;
  `MainsAreInPlace` and from it `ClientsRunTheTA`, `SidesAgree`,
  `VerifiedIsSigned`, `FailureHasCause`, `FootprintIsBounded`. The TAs keep no table, so nothing protects a handle but
  the order in which its client passes it; the invariant `DemoInv` therefore is
  a table over the positions of the three mains: which variable holds a handle
  that is alive (`Alive`), filled (`Filled`), for which use (`UseOf`) and with
  whose key (`KeysOf`), that the session owns no other slot (`Only`) but what
  closed derivations and signatures leave (`Left`), and what the client has read
  (`Knows`). A command changes slots of its own session or free ones (`Local`),
  because passing a handle of another session ends in a panic: so no other
  process disturbs a main (`Untouched`). Each call then takes a main from its
  row to the next. `Few` bounds the slots without counting them. The two
  assumptions say that the keys of ECDH's test vector are keys (`Vectors`). In
  `Next` of `HandleTA` a client may bring any key of any session or test vector
  (`Materials`), as the mains of ECDSA and Curve25519 bring to one session what
  they were given in another; that they pass no other handles than those of the
  session (`PassesOwn`) and no other keys makes them clients of the TAs.
- **DeviceProofs** (from `DeviceAssumption`, `DemoAssumption`):
  `DevicesAreInPlace` and from it `MainsRelease`; `HuntsEnd`; `AnswersAreGenuine`
  and `ScanFailureHasCause`; `ChecksumsAgree`. `DemoInv` has for
  each call of each main the state the driver handle is in as long as no call
  has failed (`HandleAt`). `LinkInv` adds the line of the element: `Completes`,
  that the rest of a header is still to come in one piece, is inductive. It holds
  when the request has been heard, because every answer begins with a header,
  whatever has been left before it; a byte read either is the next of the header
  or was not needed; and a byte somebody else takes is noticed (`meddled`).
  `ScanInv` says what the bytes are. Unless an answer of the element can be
  mistaken for two (`Echoes`), the line can be cut into whole answers, behind the
  rest of one whose reader was killed, and a hunt with n bytes of a header found
  ends at the end of a header and nowhere else (`Parses`, `Searches`): AA and 55
  found anywhere else would stand in one answer past its header, which makes it
  an echo (`NoEcho`). A client nobody has disturbed is then at one place of one
  answer (`InPlace`), and any client of which no call failed has only bytes of
  the line (`Took`).
  `ChecksumsAgree` says for every sequence of bytes that the client's CRC (a table,
  a register shifted to the left, bytes and result reversed) is the element's (a
  register shifted to the right, bit by bit). A number below 65536 is known by
  its bits (`SameBits`), so the bits of what `Xor`, the reversals and the shifts
  return decide (`XorBits`, `ReversedBits`, `HalfBits`, `ShiftBits`). The shift to
  the right is that to the left, reversed (`Mirrored`), and both it and the
  reversal are linear over `Xor`, so that a row of the table is what eight shifts
  make of a byte (`TableReversed`). After each byte the client's register is
  therefore the element's, reversed (`ByteAgrees`, `RegistersAgree`). The induction
  over the bytes is by the least position where this would fail, since a theorem
  with an operator for parameter cannot be used.
- **StorageProofs** (from `StorageAssumption`): `TypeCorrect`, `HeapIsAccounted`,
  and `ToldIsTrue` under `"delete" \notin Faults`. `Consistent` adds to the type
  what the command under way holds (`Underway`), so that freeing its buffers
  never makes the heap negative; `Settled` says that storage and answers agree
  but for the object being created. The assumption is needed: after a failed
  delete that answered success, `known` no longer contains the content.
  `ClientsRunTheTA`, `ContentIsAsWritten`, `NothingIsLeft` (again if deletes are
  carried out) and `FailureHasCause` are about the mains: `DemoInv` says that only
  the client in whose name the session is open has a command under way, what
  that command is for its position (`Pending`), and what the object contains
  there (`Progress`); the session is exclusive, so nobody else moves it.
  `FailureHasCause` assumes that a client's content fits the heap beside its
  identifier: `TA_DATA_SIZE` is 32 KiB and the demonstration writes 7000 bytes.
- **UpdateProofs** (from `UpdateAssumption`): `TypeCorrect`; `OwnImages` and
  `AllServed`, with any set of programs failing and cutting their files short,
  any `tee.ext4` and interruptions anywhere. `Fresh` is what makes `OwnImages`
  hold: if nothing has failed for the current board in this run, both parts of its
  upload are what is on the way, from the copy to the packed file. `Stuck` adds
  that a board whose image is left mounted on `tmp_root` is `unsure`, so that no
  `rm -fr` spoils one that is not. For `AllServed`, `Served` says that what is
  claimed at the end holds already of the boards the script is done with.

- **SbMetaProofs** (from `SbMetaAssumption`): `TypeCorrect`, `WholeFiles`,
  `ImagesSigned`, `SchemesRecorded`, and `DigestsRecorded` under `Distinct`, no
  list with two images to be signed under one name. While a build is under way
  images and list stay, so what the check found out is still so when it is used
  (`Checked`); records once made stay right (`Recorded`); what has been signed is
  the product of the image as it is now (`Made`), whatever the tool does later,
  because a signed file either stays or becomes that product again
  (`ImagesignMakes`). `WholeFiles` says for lists of any length what a file of
  full size tells: its records are those of the list at hand, in order, and
  with padding to fit it comes from no failed build, while a list that leaves
  none is always refused, recorded up to the last slot.
- **ImageSignProofs** (from `ImageSignAssumption`, `MissingAssumption`):
  `VersionsApart`, `TypeCorrect`, `RunsSign`, `BootImageKept`. `OnTheWay` says
  that as long as nothing has failed in a run the parts made so far are those of
  this run, `Kept` that unless something failed while it was mounted all files
  of the boot image have the same number of signatures, those the loop has
  passed one more.

Every safety invariant and every step property of a passing run is thus stated
by a theorem; four of these (`ToldIsTrue`, `NothingIsLeft`, `FailureHasCause` of
storage, `DigestsRecorded`) have a hypothesis on the constants, named above. Only
model-checked is liveness (`Answered`, `EndsClean`), which is out of the prover's
reach.

## 5. What was learnt that no property settles

- DELETE of the secure storage answers success when the core failed to delete
  (`secure_storage_ta.c:72`): with `"delete"` in `Faults`, `ReadsWhatWasWritten` and
  `LeavesNothing` are violated.
- A list of exactly 32 images fills the 4096 bytes of `sbmeta.bin` and is refused
  as too many when every record has been written (`sbmeta.py:275`); the file left
  behind has its full size. `WholeMeansDone` says so.
- An interrupted `ree` run leaves `boot.ext4` mounted on `bootimg`, and the
  `rm -rf bootimg` of the next one (`imagesign.sh:305`) removes the files of the
  image. An interrupted update leaves `tee.ext4` mounted on `temp`, and the
  `rm -rf temp` of the next one (`sbmetaupd.sh:12`) removes what was uploaded.
- When `csi_spi_open` fails the SPI TA creates the session all the same, with a
  handle nobody has set (`spi_ta.c:48`), though the comment at `:53` says that no
  session is created then. The client of the security element prints the success
  of a mutual authentication that failed, because its wrappers return 0 in every
  case (`se/host/main.c:245`). Mains of I2C and SPI that leave through `errx`
  leave the bus initialised. `Released` excuses all three.
- The dummy key of the AES TA is taken from the heap by every PREPARE and never
  freed (`cipher_ta.c:188`), so a session can be prepared only as often as the
  heap has room; in the demonstration twice is enough.
- What an RSA or DSA client passes as size is in bits; the comment in
  `rsa_crypto.h`, "param[1] (value) a: key size in bytes", would make it eight
  times too large.
- An ECDSA key one of whose attributes has a leading zero byte comes back from
  the core one byte shorter if the core drops it, and is refused when the client
  imports it: about one `main` in a hundred would fail so (`short` in `HandleTA`, excused by `FailsForCause`).
- The checksum of the link starts at 0, so leading zeros do not change it, and
  that of zeros alone is 0. It tells wrong bytes better than missing ones: when
  another process takes bytes off the line, the rest can pass as an answer nobody
  gave, so `AnswerGenuine` promises an answer of the element only to a client that
  had the line to itself. The mode `CRC_CCIT_MCRF4XX` sets the initial value only
  and so computes what `CRC_CCIT_FALSE` does (`spi/host/main.c:172`); no caller
  uses it.
- The search for a header passes over anything between its five bytes. Of an
  answer with a payload like 0, AA, 55, half read by a process that was killed,
  enough is left to make a header, and the next scan fails or takes the bytes
  behind it for an answer. `Echoes` names such answers: AA and 55, in this order,
  behind the header. `AnswerGenuine` and `Odd` excuse what follows one; the proof
  shows that nothing else of the kind need be excused.
- The status word of the element is judged with `&&` where both bytes are to be
  right (`spi/host/main.c:636`), and with one byte of answer by the byte before
  the buffer, after which its bytes are printed up to a length of -1. No document
  says what success is; the model takes the test as it is, and has the process
  end at such an answer.
- `spi/host/main.c` has the call of `se_hsck2_scan` commented out, and the
  client of the security element passes buffers of size 0 to several commands.
- The check of the board id in `imagesign.sh:662` lacks a space in its last test,
  which is an unknown command and false: any board id is accepted.
- A version without a dot is signed as number 0 (`image_ver` keeps its initial
  value when `let` fails), for u-boot and all others alike.
- A second run for `ree` signs what is signed already, and when the sign tool
  fails `cp` puts an older signed file of the same name into the image.
- When an image is left mounted on `tmp_root`, `bin2ext4.sh` can no longer remove
  that directory: each later update writes its file and reports a failure that
  `sbmetagen.sh` turns into status 0.
- `chkuboot` says it generates the original of a signed u-boot; of an encrypted
  one it gives the ciphertext.
- `sbmetagen.sh -f` sets `file` where `sbmeta_gen` reads `yaml_file`, so the
  option has no effect; it accepts `nor` as algorithm, which `imagesign.sh` refuses.
- `imagesign.sh` always signs its default file of a type, whatever `image_path`
  says, and an image without a version is signed as 1.2 where `sbmeta.yaml:62`
  says 1.0.

## 6. Findings

Each is a run that TLC ends with a counterexample; `PROJECT.json` quotes the
lines that say otherwise.

1. `aes_key_length`: PREPARE with 32 bytes, a PREPARE refused for its mode that
   has already stored 16 bytes, SET_KEY with 16 bytes: the operation prepared
   for 32 holds a 16-byte key, though the header requires the lengths to be equal.
2. `sbmeta_unsigned`: an image of a type the list documents and `imagesign.sh`
   does not know is recorded as signed and has no signature. So is one its sign
   tool failed on; if an earlier build has left a signed file of that name, it is
   digested and recorded instead, although it is another image.
3. `update_silent`: a failure inside `sbmetagen.sh` has exit status 0; the update
   ends without a message and the board keeps its old metadata, or if
   `bin2ext4.sh` failed, which zeroes the old image first, has none of use.
4. `update_foreign`: from a `tee.ext4` with `tee.bin` alone, as the Readme of
   `bin2ext4` makes it, the board gets the digest of the `trust_firmware.bin`
   copied for another board before. The same property fails when the sign tool
   fails in a run after one interrupted between signing and moving: the signed
   file left behind is packed for the wrong board.

## 7. Not modelled, and the plan

Of the components listed in 1 with state and control of their own all are
modelled, the two groups of shell scripts but for these parts:

- `imagesign.sh chkuboot`, which copies a file without its header to a place
  nothing reads again;
- the options of `sbmetagen.sh` when it is run by hand (`sbmetaupd.sh` passes
  always the same).

Left out for good:

- the eFuse, TRNG, hello world, shared memory and float demonstrations, which
  make one or a few calls and keep nothing between them;
- the kit under `export/` and the C library copied into `demo/float`, which are
  vendored (headers, mbedtls, musl, `sign_encrypt.py`, `user_ta_header.c`) around
  libraries that are binaries. They are more than nine tenths of the
  repository's lines; the programs of its own that this project models come to
  some ten thousand lines with their headers, a good part of which formats
  output and sets up parameters;
- burn scripts, which are lists of commands, images and manuals.

What the core, the drivers, the element and the sign tool do inside is outside
the repository, and where a model needs it, it is marked external in the map.
The assumptions made about them are these: the core reuses a freed slot at once
and panics the caller on a wrong handle; it reads fewer bytes of an object than
asked for only at the end of its data, which the TA has asked for before; a
driver call has no effect when it fails; the element answers each whole request
once and never by itself; the sign tool writes its output, leaves it alone or, in
the metadata update, leaves it cut short.

Next would be: `chkuboot`; a second exchange for the link.
