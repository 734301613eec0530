CONSTANTS
  Tills = {t1, t2}
  Managers = {t1}
  Orders = {o1, o2}
  Tables = {tb}
  NoTable = NoTable
  Lines = {l1, l2, c1, c2}
  Combo = {c1, c2}
  Courses = {1}
  MaxQty = 2
  MaxSaves = 4
SPECIFICATION MCSpec
SYMMETRY Symmetry
INVARIANTS OrdersInv KitchenBalance BillsAddUp OneOrderPerTable
PROPERTIES ClosedStaysClosed
CHECK_DEADLOCK FALSE
