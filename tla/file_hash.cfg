SPECIFICATION Spec
CONSTANTS
  Algorithms = {"MD5", "SHA256"}
  BlockSize = 4  LengthSize = 2  Word = 32  ReadSize = 9  MaxSize = 136
INVARIANTS TypeOK FedIsPadded
