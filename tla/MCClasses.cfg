SPECIFICATION ClassesSpec
CONSTANTS
  Keys = {k1, k2}
  Locks = {k2}
  Mods = {ctrl}
  LeftCtrl = ctrl
  Slots = 1
  MaxPacket = 2
  MaxBytes = 4
  MaxWant = 3
  Polls = 2
  MaxSent = 4
  Settings = {full, high}
  Blocks = 4
  Chunk = 2
  MaxBlocks = 3
  MaxTag = 3
  MaxCount = 4
  Tries = 2
  Bads = {{}, {2}}
  Sizes <- SizesDef
  Packet = 2
  Limit = 1
  NoLimit = 9
  MaxFrames = 3
  Rate = 48
  Target = 16
  Drift = 5
  Sockets = {1, 2}
  Makes = {m1, m2}
  Silent = {m2}
  MaxChanges = 4
  Widths = {2}
  Heights = {1, 2}
  PanelWidths = {4, 5}
  PanelHeights = {2, 4}
  Pads = {0, 1}
  Upscales = {0, 1}
  MaxDrawn = 3
  Played = {123, 127}
  Channels = {0, 1}
  Buttons = {4}
  MaxWaiting = 2
  MaxPlayed = 3
  Unplugs = TRUE
INVARIANTS KeysTrue BytesOnce AnswerIsOurs PortTruth WholeFrames LargestCarried VolumeTrue PaceHolds PlaysAtPitch NoNoteLeft PrintedTrue Consistent
PROPERTIES EventsTrue DisplayTrue CommandsTrue
CHECK_DEADLOCK FALSE
