\* Two set_context calls and another tool, or one set_context, a restore and
\* an editor.
CONSTANTS
  s1 = s1
  s2 = s2
  w1 = w1
  b1 = b1
  e1 = e1
  Canonical = Canonical
  None = None
  Sets = {s1, s2}
  Writes = {w1}
  Restores = {b1}
  Editors = {e1}
SPECIFICATION Spec
CHECK_DEADLOCK FALSE
CONSTRAINT OneCast
SYMMETRY Identical
INVARIANTS
  DeliveredAtMostOnce
  OnlyOutsidersDivert
  OneHelper
  HelperIsPublished
PROPERTY
  KeepsPromise
