SPECIFICATION Spec
CONSTANTS
  w1 = w1
  w2 = w2
  w3 = w3
  w4 = w4
  t1 = t1
  t2 = t2
  t3 = t3
  Word <- MCWordNil
  NilStr = NilStr
  Text <- MCText
  EmptyText <- MCEmptyText
  keyKind = 1
  Val = {1}
  Zero = 0
  Absent = Absent
  InitCap = 1
  MaxGone = 1
INVARIANTS
  TextsUnique
