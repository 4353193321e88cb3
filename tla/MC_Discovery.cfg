\* Two command lines over three contents and two releases of the server.
SPECIFICATION Spec
CONSTANTS
  a = a
  b = b
  Servers = {s1}
  Commands = {c1, c2}
  None = None
  Types <- MCTypes
  Wants <- MCWants
  Releases <- MCReleases
  TypesOf <- MCTypesOf
  Revisions <- MCRevisions
  Seconds <- MCSeconds
SYMMETRY Symmetry
INVARIANTS
  
  MissingWasMissing
  
