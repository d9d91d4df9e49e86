SPECIFICATION FairSpec
CONSTANTS
  Callers = {c1, c2}
  MaxRequests = 2
  Faults = {"webui_restart"}
PROPERTIES
  CallsReturn
  NoticedIsRun
