CONSTANTS
  Users = {u1}
  Sweepers = {s1, s2}
  Stays = s1
  Thresholds = {1, 3}
  Dates = {1, 2, 3}
  MaxDay = 2
  Nobody = Nobody
  Never = Never
SPECIFICATION FairSpec
INVARIANTS LetterOnce MarkedMeansWritten
PROPERTY DueIsMarked
