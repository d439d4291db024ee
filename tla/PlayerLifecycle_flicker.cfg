SPECIFICATION Spec
PROPERTIES NoFlicker
