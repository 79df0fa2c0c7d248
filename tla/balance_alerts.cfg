CONSTANTS
  a = a
  b = b
  Channels <- MCChannels
  Balances = {"ok", "warn", "error"}
  EtaCases = {FALSE}
  Rules = {"low", "error", "recover"}
  Threshold = 2
  Renotify = 1
  MaxDelay = 2
  Window = 3
  Gap = 2
  MaxTime = 4
  MaxFlips = 2
  FlipsPerSend = 1
  MaxSwitches = 1
SPECIFICATION Spec
SYMMETRY Symmetry
INVARIANTS TypeOK NoneTwice OneReminder NewRoundReminds
PROPERTIES NotToldAgain NoEarlyRestart ArchivedLeftAlone
CHECK_DEADLOCK FALSE
