\* Two pipelines, two secret values, one Trigger.
CONSTANTS
  Ids = {p1, p2}
  Arrays = {e1, e2, e3, e4}
  Values = {v1, v2}
  Mask = Mask
  Calls = {t1}
  None = None
SPECIFICATION Spec
INVARIANTS
  GetIsUnmasked
