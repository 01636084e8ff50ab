\* Files of two names under two changes; one or two small sources of every
\* format, under every rule list, segmentation and recipe; every dataset of four
\* records over six shapes; files of rows of every container and schema, under
\* plans of every membership; the commits of two sources under two choices of
\* every setting.
SPECIFICATION Spec
CONSTANTS
  Names = {1, 2}
  MaxChanges = 2
  MaxReads = 3
  MaxRemovePpm = 600000
  Stops = {"."}
  WideStops = {"w"}
  Closers = {"q"}
  Openers = {"q"}
  Letters = {"a", "b", "c", "d", "A", "B", "u"}
  LowerCase = {"a", "b", "c", "d", "u"}
  Abbreviations = {}
  Captures <- MCCaptures
  RuleLists <- MCRuleLists
  Segmentations <- MCSegmentations
  Recipes <- MCRecipes
  Records = {1, 2, 3, 4}
  Sources = {1, 2, 3}
  RawDigests <- MCRawDigests
  Shapes <- MCShapes
  Policies <- MCPolicies
  RowFiles <- MCRowFiles
  RowPlans <- MCRowPlans
  Examined <- MCExamined
  Disturbable = {"manifest", "train", "validation", "extra", "stray"}
  MaxDisturbed = 2
  ReplaySources = {1, 2}
  Selections <- MCSelections
  SettingChoices = {1, 2}
  Reviewed = {2}
  Failing = {2}
INVARIANTS NoContradiction ContentKept LeakageFree GatesPass SealedVerifies VerifiedAsOneTree UsedTogether NothingLostSilently RevisionReplays ChunksProved EveryChunkAnswered FieldsAreTheUnit ImportSound
CHECK_DEADLOCK FALSE
