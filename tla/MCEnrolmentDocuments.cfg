\* One request of the staff or the wizard beside one view and the worker.
CONSTANTS
  Requests = {r1}
  EditSteps = {"RULES_SIGNING"}
  MaxEdits = 1
  MaxJobs = 2
  MaxRows = 3
  MaxFiles = 6
  MaxFaults = 1
SPECIFICATION FairEnrolmentSpec
CHECK_DEADLOCK FALSE
INVARIANTS
  
  OneDocument
  
PROPERTIES
  SignedIsGenerated
