SPECIFICATION LiveSpec
CONSTANT Sections <- MCSections
PROPERTY CommandResets
