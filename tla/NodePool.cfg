CONSTANT Node = {n1, n2, n3}
CONSTANT MaxMishap = 1
SPECIFICATION Spec
SYMMETRY Perms
INVARIANTS TypeOK Partition AbortsOnlyTorn NormalExcludesAbnormal AllocationContract
PROPERTIES RestartKeepsAssignment RolesSpec
