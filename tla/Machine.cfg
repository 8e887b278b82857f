SPECIFICATION Spec
CONSTANTS
  Kernel <- MCKernel
  Shell <- MCShell
  PageSize = 4
  BssSize = 4
  ShellAddress = 13
  Top = 19
  Programs <- MCPrograms
  Calls <- MCCalls
  StartTimes <- MCStartTimes
  MaxSeconds = 2
  Duration = 2
  Iterations = 2
  Width = 1024
  Height = 768
CHECK_DEADLOCK FALSE
INVARIANTS ShellIntact HandledInterrupts SpeakerLeftAsPromised TimeShown
PROPERTIES CallsKeepTheABI CommandsEnd
