CONSTANTS
  p = p
  q = q
  self = self
  t1 = t1
  t2 = t2
  k1 = k1
  k2 = k2
  o1 = o1
  o2 = o2
  absent = absent
  nobody = nobody
  notask = notask
  Nodes <- MCNodes
  Orgs = {o1, o2}
  Keys = {k1, k2}
  Manifests <- AllManifests
  NoManifest = absent
  Self = self
  Tasks <- OneTask
  Admissible <- AllAdmissible
  Rotations = {TRUE, FALSE}
  Operations = {"admit_peer", "bootstrap_from_seeds", "discover", "refresh_peer", "refresh_all", "apply_revocation_notice", "clear_record"}
  Faults = {"crash", "abort"}
  MaxSeeds = 2
  PerPeerCap = 2
  NoNode = nobody
  NoTask = notask
SPECIFICATION Spec
PROPERTIES RefreshMovesForward
