CONSTANT MaxInstances = 3
SPECIFICATION FairSpec
INVARIANT TypeOK
INVARIANT HeldOnlyWhileShown
INVARIANT ImageTellsLamp
PROPERTY CameraGivenBack
