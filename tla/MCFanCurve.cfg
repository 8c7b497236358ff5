\* x runs past the fastest point of either track (10327 rpm).
SPECIFICATION Spec
CONSTANTS
  Profiles <- OneOfEachKind
  MaxX = 10400
INVARIANTS EveryDegreeServed DutyInvertsTrack
PROPERTY HotterSpinsFaster
