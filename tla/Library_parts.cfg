\* Two callers, three files and three images; the texts are told apart by their names.
CONSTANTS
  None = None
  Gone = Gone
  Actors = {p, q}
  another = another
  Files = {k1, k2}
  a = a
  b = b
  c = c
  x = x
  MaxChanges = 1
  FileFailures = 2
  Images = {1, 2, 3}
  PictureUrls = {2}
  MaxCuts = 1
  Writers = {1, 2}
  Projects = {a, b}
  Attempts = 2
  MaxFailures = 1
  Spines <- Books
  Pictures = {a, b}
  NoPicture = None
  MaxChapters = 3
  ImportFailures = 2
  ChunkedTexts <- MCChunkedTexts
  ChunkChars = 5
  ChunkWords = 3
  Providers = {"gemini", "anthropic"}
  Gemini = "gemini"
  ServerKeys = {"gemini"}
  MaxKeys = 2
  EntityNames = {"n1", "n2"}
  AttributeValues = {"v1", "v2"}
  Extracted <- MCExtracted
  FirstEntities <- MCFirstEntities
  MaxCandidates = 2
  MaxEdits = 1
  MaxProposals = 1
  Step = 2
  MaxEvents = 4
  MaxMoves = 3
  FirstEvents = 3
  RacedMoves = 2
  AuditedScenes = {1, 2, 3}
  SceneClaims <- MCSceneClaims
  MaxClaims = 1
  FirstOrders <- MCFirstOrders
  FirstClaims <- MCFirstClaims
  AuditSaves = 1
  AuditChanges = 1
  SceneTexts <- MCSceneTexts
  ClaimOf <- MCClaimOf
  GroupSize = 3
  AlertSaves = 2
  MaxVerdicts = 2
  Builds = {"old", "new", "next"}
  HelpTexts <- MCHelpTexts
  HelpModels <- MCHelpModels
  HelpBatch = 2
  MaxStarts = 3
  HelpFailures = 1
  Texts = {a, b}
  Models = {"m1", "m2"}
  BatchSize = 1
  MaxTextSaves = 3
  MaxReleases = 1
  ChunkIds = {1, 2, 3, 4, 5, 6}
  StoryScenes = {1, 2, 3}
  SceneKeys <- MCSceneKeys
  FirstManuscripts <- MCFirstManuscripts
  SavedChunks <- MCSavedChunks
  PageRows = 2
  ShownSources = 1
  SceneSaves = 2
  Messages = {p, q}
  Excerpts = {1, 2, 3, 4, 5}
  Retrievals <- MCRetrievals
  Generated <- MCGenerated
  MaxTitles = 1
  MaxManuscript = 14
  MaxWiki = 10
  MaxTimeline = 20
  MaxContext = 20
  MaxSize = 480
  SourceSize <- MCSourceSize

SPECIFICATION Spec
SYMMETRY Symmetry
INVARIANTS RevokedAdmitsNobody PictureAgrees DataGoneBeforeIdentity StoryIsKept FailedImportLeavesNothing ChunksAreTheText FactsReachTheAuthor QuietAuditIsComplete QuietSceneIsReported IndexIsTrue AnswersAreSound SearchSeesCurrentText AnswersAreExact NoKindIsCrowdedOut
PROPERTIES LostOnlyWhenOvertaken LockedValueIsWarned PlacedWhereAsked DismissedStaysAway SelectedKeyIsFound
CHECK_DEADLOCK FALSE
