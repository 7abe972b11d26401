SPECIFICATION Spec
CONSTANTS
  Thread = {p, q}
  RT_ALIGN_SIZE = 8
  mem_size_aligned = 112
  Size = {0, 1, 40}
SYMMETRY Symmetry
INVARIANTS Tiled LfreeUsable Owned
