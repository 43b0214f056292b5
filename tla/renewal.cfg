CONSTANTS
  CodeSpan = 256
  Replies <- MCReplies
  MaxFailures = 5
  MaxOps = 3
SPECIFICATION FairSpec
INVARIANT RenewalTypeOK
INVARIANT OnlyTheApiSignsOut
PROPERTY RefreshesAreSpaced
PROPERTY CredentialsKept
PROPERTY ImplementsGate
 
