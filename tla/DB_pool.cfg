\* Five requests, two connections.
CONSTANTS
  a1 = a1
  a2 = a2
  s1 = s1
  w1 = w1
  q1 = q1
  pago1 = pago1
  cuotas1 = cuotas1
  case1 = case1
  contract1 = contract1
  Query = Query
  Requests = {a1, a2, s1, w1, q1}
  Program <- MCProgram
  MaxConn = 2
SPECIFICATION FairSpec
PROPERTY RequestsEnd
CHECK_DEADLOCK FALSE
