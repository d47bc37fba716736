CONSTANTS
  p = p
  q = q
  self = self
  t1 = t1
  t2 = t2
  k1 = k1
  k2 = k2
  o1 = o1
  o2 = o2
  absent = absent
  nobody = nobody
  notask = notask
  Nodes <- MCNodes
  Orgs = {o1, o2}
  Keys = {k1, k2}
  Manifests <- TwoManifests
  NoManifest = absent
  Self = self
  Tasks <- TwoTasks
  Admissible <- TwoManifests
  Rotations = {TRUE, FALSE}
  Operations = {"admit_peer", "bootstrap_from_seeds", "discover", "refresh_peer", "refresh_all", "apply_revocation_notice", "clear_record"}
  Faults = {}
  MaxSeeds = 1
  PerPeerCap = 2
  NoNode = nobody
  NoTask = notask
SPECIFICATION Spec
SYMMETRY TaskSymmetry
INVARIANTS TypeOK NoOrphanActive
PROPERTIES QuietIsForever OperationsAdvance
