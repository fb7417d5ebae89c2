\* Three callers are the least that lets one queue behind a write that
\* another one joined.  No symmetry: some properties are temporal.
SPECIFICATION FairSpec
CONSTANTS
  Caller = {c1, c2, c3}
  MaxVersion = 2
INVARIANTS TypeOK SavedIsDurable OneWriter
PROPERTIES DiskNeverRegresses SaveSettles KeepsContract
