CONSTANTS
  MaxSends = 3
  NoMail = NoMail
SPECIFICATION Spec
INVARIANT PacketsInStep
PROPERTIES ImplementsMailboxes BothHalt
