SPECIFICATION Spec
CONSTANTS
  Gibi = 3
  MinVolumeSizeGi = 2
  DefaultVolumeSizeGi = 4
  MaxVolumeSizeGi = 6
  MaxBytes = 22
INVARIANT DefaultOtherwise
