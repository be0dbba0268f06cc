\* One rude and one patient client, one key.
SPECIFICATION FairSpec
CONSTANTS
  a = a  b = b  k1 = k1   listener = listener
  Conns = {a, b}
  Rude <- Impolite
  Says <- Sayings
  Listener = listener
  Keys = {k1}
  Lines <- TwoAndOne
  none = none
INVARIANTS TypeOK TableMatches WorkWakes
PROPERTIES Answered 
CHECK_DEADLOCK FALSE
