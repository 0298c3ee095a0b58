CONSTANTS
  m1 = m1  m2 = m2  m3 = m3  ann = ann  bob = bob  p1 = p1  p2 = p2  i1 = i1  i2 = i2
  Nobody = Nobody
  Msg <- MCOneMsg
  User <- MCOneUser
  Owner <- MCOneOwner
  Pop <- MCNone
  Imap <- MCOneImap
SPECIFICATION Spec
PROPERTIES ExamineIsReadOnly
