------------------------------ MODULE MCMenuTree ------------------------------
EXTENDS MenuTree

MenuSymmetry == Permutations(Menus)

===============================================================================
