\* Three sessions with a camera, one of them with a codec ffmpeg is not given.
SPECIFICATION Spec
CONSTANTS
  Sessions = {s1, s2, s3}
  Playable = {s1, s2}
INVARIANTS
  TypeOK
  NoTakingBack
PROPERTIES
  OneWebcam
  CameraShown
  WebcamFreed
CHECK_DEADLOCK FALSE
