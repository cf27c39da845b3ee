SPECIFICATION Spec
CONSTANTS
  Apps = {"LiveApp", "rtmpout"}
  RtmpOut = "rtmpout"
  Streams = {s1}
  Contexts = {c1, c2}
  Pipelines = {p1, p2}
  VideoCodecs = {"H264"}
  AudioCodecs = {"AAC"}
  OutTypes = {"RTSP_OUT", "Gstreamer"}
  Configs <- OneDefault
  IsVideo = 0
  HostWaits = FALSE
  NULL = NULL
SYMMETRY ObjectSymmetry
CHECK_DEADLOCK FALSE
INVARIANTS TypeOK LeakOnlyLost MountOutlives NoCrash
