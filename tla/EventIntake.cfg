\* Envelopes of every kind against templates of every kind.  A delivery ends:
\* no deadlock check.
SPECIFICATION Spec
CONSTANTS
  Deliveries <- AllDeliveries
  Templates <- AllTemplates
  NoTemplate = NoTemplate
  WordLength <- Lengths
  MaxSubject = 4
INVARIANTS
  TypeOK
  RenderedOnce
  NoPlaceholderIsMailed
  UnfitIsNotMailed
  FateFollowsClass
CHECK_DEADLOCK FALSE
