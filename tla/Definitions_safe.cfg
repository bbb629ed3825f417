SPECIFICATION Spec
CONSTANTS
  Agent = agent
  Embeddings = {e1, e2}
  NoEmbedding = NoEmbedding
  Creators = {c1, c2}
  Senders = {s1, s2}
  Requests = {q1, q2}
  NoRequest = NoRequest
  MaxExpected = 2
  MaxEpoch = 2
  MaxTurns = 1
INVARIANT TypeOK
INVARIANT EmbeddingImmutable
INVARIANT AppliedOnce
INVARIANT CreationWhole
INVARIANT EpochsInOrder
PROPERTY RefinesLog
SYMMETRY Symmetry
CHECK_DEADLOCK FALSE
