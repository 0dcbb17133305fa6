SPECIFICATION Spec
CONSTANTS
  Procs = {"p", "q"}
  Agendas <- MCAgendas
  Table <- MCTable
  MaxSocks = 2
INVARIANTS
  TypeOK
  FieldsAsAsked
  SocketsAccounted
  ChannelIsTheCards
  PrivRunsNamed
CHECK_DEADLOCK FALSE
