SPECIFICATION FairMailSpec
CONSTANTS
  Units = {u1, u2}
  First = u1
  Faults = {"apt", "service", "leadership"}
INVARIANTS ProgramInStep UnitsInSync MailStopped
PROPERTIES MailSent
