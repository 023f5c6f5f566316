SPECIFICATION Spec
CONSTANTS
  Parts = {"ManyPrograms"}
  p0 = p0
  c1 = c1
  c2 = c2
  nobody = nobody
  v0 = v0
  v1 = v1
  hole = hole
  ManyValues = {v0, v1}
CHECK_DEADLOCK FALSE
PROPERTY ForkSees
