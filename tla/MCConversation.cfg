\* Overlapping hooks on the messages of one conversation.
SPECIFICATION Spec
CONSTANTS
  h1 = h1
  h2 = h2
  Hooks = {h1, h2}
  Said <- MCSaid
  Retrieved <- MCRetrieved
  MaxMessages = 2
  MaxHooks = 4
INVARIANTS
  InjectedOnce
  PromptIsOwn
\* The conversation stops when its messages and hooks are used up.
CHECK_DEADLOCK FALSE
