\* Recycled views under loading thumbnails: safety, and every thumbnail arrives.
SPECIFICATION FairSpec
CONSTANTS
  View = {v1, v2}
  Clip = {c1, c2}
  Task = {t1, t2, t3}
  NULL = NULL
INVARIANTS
  NoWrongThumbnail
PROPERTIES
  ThumbnailArrives
CHECK_DEADLOCK FALSE
