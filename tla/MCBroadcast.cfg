\* Three clients: the vector grows at the first, the second and the third, and
\* one pass can meet two failures and a survivor.
CONSTANTS
  Clients = {c1, c2, c3}
  Fds = {f1, f2, f3, f4}
  Nobody = Nobody
  Other = Other
  MaxSends = 2
SPECIFICATION Spec
SYMMETRY Symmetry
INVARIANTS TypeOK RegistryExact OncePerPass
PROPERTY MiscloseNeedsTwo
\* The listener and the messages come to an end.
CHECK_DEADLOCK FALSE
