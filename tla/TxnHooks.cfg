CONSTANTS
  Directive <- MCDirective
  Global <- MCGlobal
  Rules <- MCRules
  Whens <- MCWhens
  MayEnd <- MCMayEnd
  MayFail <- MCMayFail
SPECIFICATION FairSpec
INVARIANTS ScheduledOrder ContextLife
PROPERTIES NoCallbackLost KeepsPromise RuleCutShort ContextFreed
