SPECIFICATION Spec
CONSTANTS
  Keys = {"k"}
  Clients = {c1}
  NoVal = NoVal
  Never = 9
  NoTx = NoTx
  Nodes = {n1, n2}
  Cmds <- Commands
  Others <- Admin
  MaxLog = 3
  MaxFlight = 2
  MaxTime = 1
INVARIANTS ReplicasAgree OnlyFirstApplied CopiesGetTheSameReply
PROPERTIES SeqGrows
SYMMETRY Symmetry
CHECK_DEADLOCK FALSE
