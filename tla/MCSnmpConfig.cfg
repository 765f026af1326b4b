\* Every file of the instance, with and without -t; no step after main() has
\* its answer is modelled but stuttering.
SPECIFICATION Spec
CONSTANTS
  secret = secret
  Unreadable = Unreadable
  Files <- TheFiles
  Texts <- TwoTexts
INVARIANTS
  TypeOK
  LastReadableWins
  ZeroIsReported
  
