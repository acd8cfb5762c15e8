SPECIFICATION PagingSpec
CONSTANTS
  ENTRIES = 512
  NoPage = NoPage
  KERNEL_PAGE = 0
INVARIANT KernelFound
