\* Every operation of the main thread in every order; besides, a Lua state is marked and
\* nothing else, or everything but that: together they can block each other for ever
\* (LuaThreadAccess_spin.cfg).
CONSTANTS
  f1 = f1
  f2 = f2
  Files = {f1, f2}
  EventSets = {{"add", "serve", "mark", "level", "teardown"},
               {"mark"}, {"add", "serve", "level", "teardown"}}
  MaxDepth = 3
SPECIFICATION FairSpec
INVARIANTS TypeOK OneThreadInLua StateOutlivesAccess
PROPERTIES WaiterServed  MainProceeds
CHECK_DEADLOCK FALSE
