SPECIFICATION BuilderSpec
CONSTANTS
  Nothing = Nothing
  MaxScans = 2
  Props <- Names
  Documents <- AllDocuments
  Json <- AllJson
  Schemas <- AllSchemas
  Shape <- ItsOwnShape
  Datas <- AllDatas
  Value <- AllValues
INVARIANTS VerdictRight PathsBalanced RefusesIllFormed ShownAsBuilt
CHECK_DEADLOCK FALSE
