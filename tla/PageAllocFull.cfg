SPECIFICATION Spec
CONSTANTS
  N = 8
  NULL = NULL
  free_list = free_list
  TopStaysFree = FALSE
PROPERTIES
  PagesUnshared
