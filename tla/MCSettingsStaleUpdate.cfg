SPECIFICATION Spec
CONSTANTS
  ServiceTypes = {"text", "audio"}
  Text = "text"
  AgentTypes = {"extractor", "voice_assigner"}
  Idents = {"mock", "cloud"}
  Mock = "mock"
  Keys = {"extractor", "voice_assigner", "custom"}
  Contents = {"own"}
  NoContent = "none"
  Patches <- MCPatches
  Bundles <- MCBundles
  Clients = {c1, c2}
  MaxOps = 4
INVARIANT SoundDefaults
SYMMETRY Symmetry
CHECK_DEADLOCK FALSE
