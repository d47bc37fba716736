CONSTANTS
  k1 = k1
  get = get
  upload = upload
  v1 = v1
  v2 = v2
  Nodes <- MCNodes
  Self <- MCSelf
  Federations <- MCFederations
  Keys = {k1}
  PublicKeys <- MCPublicKeys
  Calls = {get, upload}
  TooLarge = {upload}
  Nonces <- MCNonces
  Verifications = {v1, v2}
  MaxSkew = 2
  Drifts <- MCDrifts
  MaxTime = 3
SPECIFICATION Spec
SYMMETRY VerificationSymmetry
INVARIANTS TypeOK OnlySignedRequestsClaim HandledAsSigned
PROPERTIES GrantsFarApart TwiceOnlyIfAhead NoFalseReplay
