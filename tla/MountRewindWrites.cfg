SPECIFICATION Spec
CONSTANT Mode = {"recording", "at_time"}
PROPERTIES RewindWritesNothing
