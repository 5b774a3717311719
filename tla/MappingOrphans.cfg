SPECIFICATION Spec
CONSTANTS
  c1 = c1 c2 = c2 c3 = c3 b1 = b1 b2 = b2 r1 = r1 r2 = r2
  Columns <- ThreeColumns
  Vocabulary <- PersonVocabulary
  NoField = nofield
  NoDetector = "none"
  Batches = {b1, b2}
  Records = {r1, r2}
  BatchOf <- BatchOfBoth
  Mappers = {m1, m2}
  Normalizers = {n1}
  NoSchema = noschema
  Layouts <- RealLayouts
  Samples <- TwoSamples
  Several <- TwoAddresses
  MaxReviews = 1
  MaxNormalizations = 2
INVARIANT ReviewReachesEveryValue
CHECK_DEADLOCK FALSE
