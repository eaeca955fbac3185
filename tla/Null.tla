--------------------------------- MODULE Null ---------------------------------
CONSTANT None   \* null, undefined and the empty string of the frontend
===============================================================================
