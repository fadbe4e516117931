CONSTANT MaxInstances = 3
SPECIFICATION Spec
INVARIANT TypeOK
INVARIANT VibratesOnlyWhileShown
INVARIANT EnabledVibrates
INVARIANT ToggleTellsEnabled
