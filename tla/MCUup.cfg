CONSTANTS
  Builds = {target, other}
  Target = target
  Roots = {var_tmp, tmp}
SPECIFICATION Spec
INVARIANT VerifiedIsBuilt
PROPERTY Acquires
