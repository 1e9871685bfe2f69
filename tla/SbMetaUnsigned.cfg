CONSTANTS
  tf = tf
  dtb = dtb
  a = a
  b = b
  v12 = v12
  v21 = v21
  Types = {tf, dtb}
  Signable = {tf}
  Paths = {a, b}
  SignInput <- MCSignInput
  Data = {d1, d2}
  Versions = {v12, v21}
  Default = v12
  Configs <- UnsignedConfigs
  Slots = 3
  Faults = {"signtool"}
  Missing = Missing
  Invalid = Invalid
SPECIFICATION Spec
INVARIANTS
  SignsAsDocumented
