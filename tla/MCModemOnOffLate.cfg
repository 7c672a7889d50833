SPECIFICATION Spec
CONSTANT Cards = {2}
PROPERTIES ButtonsComeBack
\* The window may be destroyed.
CHECK_DEADLOCK FALSE
