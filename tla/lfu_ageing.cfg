SPECIFICATION Spec
CONSTANTS
  Keys = {a, b, c}
  MaxFreq = 4
  Counts = {0, 2, 4, 5}
  DefaultLambda = 33
  Lambdas <- MCLambdas
  MaxBatch = 4
PROPERTIES
  AgeingHalves
