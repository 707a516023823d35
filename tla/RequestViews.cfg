SPECIFICATION MCSpec
CONSTANTS
  w1=w1
  w2=w2
  legacy=legacy
  b1=b1
  b2=b2
  g1=g1
  x1=x1
  x2=x2
  s1=s1
  none=none
  None=none
  Legacy=legacy
  Worlds<-MCWorlds
  BranchIds={b1,b2}
  GrantIds={g1}
  EffectIds={x1,x2}
  Sources={s1}
  Policies={1}
  MaxEvents=2
  MaxCapsules=5
  MaxLoose=1
  Layers<-MCLayers
  Renderers={1}
  ApprovalGens={1}
  MaxHeads=2
  BatchLimit=2
INVARIANT Attached
INVARIANT ReceiptFinal
INVARIANT WorldsApart
INVARIANT Readable
 
CHECK_DEADLOCK FALSE
SYMMETRY BranchSymmetry
