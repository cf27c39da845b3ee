SPECIFICATION Spec
CONSTANTS
  Apps = {"LiveApp"}
  RtmpOut = "rtmpout"
  Streams = {s1, s2}
  Contexts = {c1, c2}
  Pipelines = {p1, p2}
  VideoCodecs = {"H264", "MPEG2VIDEO"}
  AudioCodecs = {"AAC"}
  OutTypes = {"RTSP_OUT"}
  Configs <- OneDefault
  IsVideo = 1
  HostWaits = TRUE
  NULL = NULL
SYMMETRY StreamSymmetry
CHECK_DEADLOCK FALSE
INVARIANTS Isolation OwnCaps
PROPERTY OutputRefinement
